---- MODULE Spec2Model ----
(***************************************************************************)
(* Model of todo.py: the lists and tasks tables of the Turso database, the *)
(* CRUD functions that issue SQL statements against it, and the script     *)
(* runs of main() that open a client, call those functions from button     *)
(* handlers and register the checkbox callback.                            *)
(***************************************************************************)
EXTENDS Integers, Sequences, FiniteSets, TLC

\* ---- bounds of the model ------------------------------------------------
MaxLists == 2       \* rows ever inserted into lists (AUTOINCREMENT values)
MaxTasks == 2       \* rows ever inserted into tasks
MaxClock == 4       \* largest value datetime.now() returns
NumClients == 1     \* client objects open at one time

\* ---- input domains ------------------------------------------------------
ListNames == {"", "a", "b"}
TaskNames == {"", "t"}
ListTypes == {"Simple", "Financial"}
YesNo == {"Yes", "No"}
SortKeys == {"task_id", "urgent", "important", "Default", "Urgent", "Important"}
SortByOptions == {"Default", "Urgent", "Important"}
ListFilters == {"All", "Simple", "Financial"}
Clients == 1..NumClients

VARIABLES
    lists,          \* rows of table lists
    tasks,          \* rows of table tasks
    seq_lists,      \* sqlite_sequence of lists: largest list_id ever given
    seq_tasks,      \* sqlite_sequence of tasks: largest task_id ever given
    clock,          \* last value returned by datetime.datetime.now(); every call
                    \* returns the next value (a strictly increasing clock)
    open,           \* clients created by get_db_client and not yet closed
    client,         \* the client of the script run in progress, 0 if none
    pc,             \* "idle": no script run in progress; "running": inside the with block
    shown,          \* the rows main() got from get_tasks_for_list and displayed
    sort_by,        \* value of the "Sort By" selectbox in the run that displayed shown
    selected_list_id, \* value of the "Select a List" selectbox in that run
    cb_client,      \* client captured in the checkboxes' on_change args, 0 if no checkbox
    last            \* record of the last CRUD call (history)

vars == <<lists, tasks, seq_lists, seq_tasks, clock, open, client, pc, shown,
          sort_by, selected_list_id, cb_client, last>>

\* The database as one value, so that a function of the program is an operator
\* from database to database.
DB == [lists |-> lists, tasks |-> tasks, seq_lists |-> seq_lists, seq_tasks |-> seq_tasks]

ListIdsOf(db) == {r.list_id : r \in db.lists}
TasksOfList(db, list_id) == {t \in db.tasks : t.list_id = list_id}

\* ---- the client ---------------------------------------------------------
\* client.execute raises when the client was closed, or when the k-th
\* statement of the operation meets a connectivity failure (fail = k).
ExecFails(cl, k, fail) == cl \notin open \/ fail = k

\* ---- SQL statements -----------------------------------------------------
\* INSERT INTO lists (list_name, list_type, last_modified) VALUES (?, ?, ?)
InsertList(db, name, list_type, now) ==
    [db EXCEPT !.lists = @ \cup {[list_id |-> db.seq_lists + 1, list_name |-> name,
                                  list_type |-> list_type, last_modified |-> now]},
               !.seq_lists = @ + 1]

\* UPDATE lists SET list_name = ? WHERE list_id = ?
SetListName(db, list_id, new_name) ==
    [db EXCEPT !.lists = {IF r.list_id = list_id THEN [r EXCEPT !.list_name = new_name] ELSE r
                          : r \in db.lists}]

\* The DELETE of delete_list as it would be without ON DELETE CASCADE.
DeleteListNoCascade(db, list_id) ==
    [db EXCEPT !.lists = {r \in db.lists : r.list_id # list_id}]

\* DELETE FROM lists WHERE list_id = ?, with tasks.list_id REFERENCES
\* lists(list_id) ON DELETE CASCADE
DeleteListRow(db, list_id) ==
    [db EXCEPT !.lists = {r \in db.lists : r.list_id # list_id},
               !.tasks = {t \in db.tasks : t.list_id # list_id}]

\* The FOREIGN KEY of tasks.list_id admits an insert only for a stored list.
ForeignKeyOK(db, list_id) == list_id \in ListIdsOf(db)

\* INSERT INTO tasks (list_id, task_name, urgent, important) VALUES (?, ?, ?, ?)
\* completed takes its DEFAULT 0.
InsertTask(db, list_id, task_name, urgent, important) ==
    [db EXCEPT !.tasks = @ \cup {[task_id |-> db.seq_tasks + 1, list_id |-> list_id,
                                  task_name |-> task_name, urgent |-> urgent,
                                  important |-> important, completed |-> 0]},
               !.seq_tasks = @ + 1]

\* UPDATE tasks SET task_name = ?, urgent = ?, important = ? WHERE task_id = ?
SetTaskDetails(db, task_id, task_name, urgent, important) ==
    [db EXCEPT !.tasks = {IF t.task_id = task_id
                          THEN [t EXCEPT !.task_name = task_name, !.urgent = urgent,
                                         !.important = important]
                          ELSE t : t \in db.tasks}]

\* UPDATE tasks SET completed = ? WHERE task_id = ?
SetTaskCompleted(db, task_id, value) ==
    [db EXCEPT !.tasks = {IF t.task_id = task_id THEN [t EXCEPT !.completed = value] ELSE t
                          : t \in db.tasks}]

\* DELETE FROM tasks WHERE task_id = ?
DeleteTaskRow(db, task_id) ==
    [db EXCEPT !.tasks = {t \in db.tasks : t.task_id # task_id}]

\* UPDATE lists SET last_modified = ? WHERE list_id = ?
SetLastModified(db, list_id, now) ==
    [db EXCEPT !.lists = {IF r.list_id = list_id THEN [r EXCEPT !.last_modified = now] ELSE r
                          : r \in db.lists}]

\* ---- results of a call --------------------------------------------------
\* status: "ok" the call ran all its statements; "skipped" the call refused an
\* empty string and ran none; "failed" a statement raised.
\* clock: the clock after the call (each datetime.now() the call made ticks it).
Result(db, clk, status, closed_exec) ==
    [db |-> db, clock |-> clk, status |-> status, closed_exec |-> closed_exec]

\* ---- update_list_timestamp ---------------------------------------------
\* k is the position of its execute among the statements of the calling operation.
update_list_timestamp(cl, db, clk, list_id, k, fail) ==
    IF ExecFails(cl, k, fail)
    THEN Result(db, clk + 1, "failed", cl \notin open)
    ELSE Result(SetLastModified(db, list_id, clk + 1), clk + 1, "ok", FALSE)

\* ---- CRUD functions for lists ------------------------------------------
\* add_list as it would be without its test of name.
add_list_unguarded(cl, db, clk, name, list_type, fail) ==
    IF ExecFails(cl, 1, fail)
    THEN Result(db, clk + 1, "failed", cl \notin open)
    ELSE Result(InsertList(db, name, list_type, clk + 1), clk + 1, "ok", FALSE)

add_list(cl, db, clk, name, list_type, fail) ==
    IF name = ""
    THEN Result(db, clk, "skipped", FALSE)
    ELSE IF ExecFails(cl, 1, fail)
         THEN Result(db, clk + 1, "failed", cl \notin open)
         ELSE Result(InsertList(db, name, list_type, clk + 1), clk + 1, "ok", FALSE)

update_list_name(cl, db, clk, list_id, new_name, fail) ==
    IF new_name = ""
    THEN Result(db, clk, "skipped", FALSE)
    ELSE IF ExecFails(cl, 1, fail)
         THEN Result(db, clk, "failed", cl \notin open)
         ELSE update_list_timestamp(cl, SetListName(db, list_id, new_name), clk, list_id, 2, fail)

delete_list(cl, db, clk, list_id, fail) ==
    IF ExecFails(cl, 1, fail)
    THEN Result(db, clk, "failed", cl \notin open)
    ELSE Result(DeleteListRow(db, list_id), clk, "ok", FALSE)

\* ---- CRUD functions for tasks ------------------------------------------
add_task(cl, db, clk, list_id, task_name, urgent, important, fail) ==
    IF task_name = ""
    THEN Result(db, clk, "skipped", FALSE)
    ELSE IF ExecFails(cl, 1, fail) \/ ~ForeignKeyOK(db, list_id)
         THEN Result(db, clk, "failed", cl \notin open)
         ELSE update_list_timestamp(cl, InsertTask(db, list_id, task_name, urgent, important),
                                    clk, list_id, 2, fail)

\* Its try/except turns a failure into st.error; nothing propagates.
update_task_details(cl, db, clk, task_id, task_name, urgent, important, list_id, fail) ==
    IF task_name = ""
    THEN Result(db, clk, "skipped", FALSE)
    ELSE IF ExecFails(cl, 1, fail)
         THEN Result(db, clk, "failed", cl \notin open)
         ELSE update_list_timestamp(cl, SetTaskDetails(db, task_id, task_name, urgent, important),
                                    clk, list_id, 2, fail)

update_task_status(cl, db, clk, task_id, completed, list_id, fail) ==
    IF ExecFails(cl, 1, fail)
    THEN Result(db, clk, "failed", cl \notin open)
    ELSE update_list_timestamp(cl, SetTaskCompleted(db, task_id, IF completed THEN 1 ELSE 0),
                               clk, list_id, 2, fail)

\* delete_task as it would be without its call of update_list_timestamp.
delete_task_no_timestamp(cl, db, clk, task_id, list_id, fail) ==
    IF ExecFails(cl, 1, fail)
    THEN Result(db, clk, "failed", cl \notin open)
    ELSE Result(DeleteTaskRow(db, task_id), clk, "ok", FALSE)

delete_task(cl, db, clk, task_id, list_id, fail) ==
    IF ExecFails(cl, 1, fail)
    THEN Result(db, clk, "failed", cl \notin open)
    ELSE update_list_timestamp(cl, DeleteTaskRow(db, task_id), clk, list_id, 2, fail)

\* ---- queries -----------------------------------------------------------
\* The orders in which a SELECT may return the rows of S: all of them, before
\* ORDER BY restricts them.
Perms(S) ==
    {s \in [1..Cardinality(S) -> S] : \A i, j \in 1..Cardinality(S) : i # j => s[i] # s[j]}

\* SQLite compares the TEXT values 'Yes' and 'No' bytewise: 'No' < 'Yes'.
YesNoOrd(v) == IF v = "Yes" THEN 1 ELSE 0

\* ORDER BY last_modified DESC: a must come before b.
ListBefore(a, b) == a.last_modified > b.last_modified

\* The SELECT of get_all_lists: the sequences it may return (rows with equal
\* last_modified come in any order).
SelectLists(db, list_type) ==
    LET rows == IF list_type # "All"
                THEN {r \in db.lists : r.list_type = list_type}
                ELSE db.lists
    IN {s \in Perms(rows) : \A i, j \in 1..Len(s) : i < j => ~ListBefore(s[j], s[i])}

\* get_all_lists: its except clause turns a failed execute into [].
get_all_lists(cl, db, list_type, fail) ==
    IF ExecFails(cl, 1, fail) THEN {<<>>} ELSE SelectLists(db, list_type)

\* The ORDER BY clauses as they would be with the default one lacking completed ASC.
TaskBeforeNoCompleted(sort_key, a, b) ==
    IF sort_key = "urgent"
    THEN \/ YesNoOrd(a.urgent) > YesNoOrd(b.urgent)
         \/ YesNoOrd(a.urgent) = YesNoOrd(b.urgent)
            /\ YesNoOrd(a.important) > YesNoOrd(b.important)
    ELSE IF sort_key = "important"
    THEN \/ YesNoOrd(a.important) > YesNoOrd(b.important)
         \/ YesNoOrd(a.important) = YesNoOrd(b.important)
            /\ YesNoOrd(a.urgent) > YesNoOrd(b.urgent)
    ELSE a.task_id > b.task_id

\* The ORDER BY clause get_tasks_for_list appends for sort_key: a must come before b.
TaskBefore(sort_key, a, b) ==
    IF sort_key = "urgent"
    THEN \/ YesNoOrd(a.urgent) > YesNoOrd(b.urgent)
         \/ YesNoOrd(a.urgent) = YesNoOrd(b.urgent)
            /\ YesNoOrd(a.important) > YesNoOrd(b.important)
    ELSE IF sort_key = "important"
    THEN \/ YesNoOrd(a.important) > YesNoOrd(b.important)
         \/ YesNoOrd(a.important) = YesNoOrd(b.important)
            /\ YesNoOrd(a.urgent) > YesNoOrd(b.urgent)
    ELSE \/ a.completed < b.completed
         \/ a.completed = b.completed /\ a.task_id > b.task_id

\* get_tasks_for_list: the sequences it may return when its execute succeeds.
get_tasks_for_list(db, list_id, sort_key, filter_urgent, filter_important) ==
    LET rows == {t \in db.tasks : /\ t.list_id = list_id
                                  /\ (filter_urgent => t.urgent = "Yes")
                                  /\ (filter_important => t.important = "Yes")}
    IN {s \in Perms(rows) : \A i, j \in 1..Len(s) : i < j => ~TaskBefore(sort_key, s[j], s[i])}

\* ---- history of the last CRUD call --------------------------------------
\* status:  as in Result.
\* changed: the call changed the stored lists or tasks.
\* closed_exec: the call issued an execute on a closed client.
\* For a call that ran all its statements (status "ok"), also:
\* list_id: the list_id it was given (add_list: the list_id it inserted);
\* existed: the row it addresses was stored when it began (a task call: the
\*          task, in list list_id; add_list: a list of that name);
\* ntasks:  delete_list: the tasks list_id had when it began.
NoCall ==
    [op |-> "none", list_id |-> 0, status |-> "skipped", existed |-> FALSE,
     ntasks |-> 0, changed |-> FALSE, closed_exec |-> FALSE]

Call(op, list_id, existed, r) ==
    [op |-> op,
     list_id |-> IF r.status = "ok" THEN list_id ELSE 0,
     status |-> r.status,
     existed |-> r.status = "ok" /\ existed,
     ntasks |-> IF r.status = "ok" /\ op = "delete_list"
                THEN Cardinality(TasksOfList(DB, list_id)) ELSE 0,
     changed |-> (r.db.lists # lists \/ r.db.tasks # tasks),
     closed_exec |-> r.closed_exec]

TaskInList(task_id, list_id) ==
    \E t \in tasks : t.task_id = task_id /\ t.list_id = list_id

\* The list ids a session may pass with task_id: the list the task was read
\* from; for a task deleted meanwhile, any list the session may have selected.
ListIdsFor(task_id) ==
    IF \E t \in tasks : t.task_id = task_id
    THEN {t.list_id : t \in {u \in tasks : u.task_id = task_id}}
    ELSE 1..seq_lists

\* ---- state changes shared by the actions --------------------------------
Commit(r) ==
    /\ r.clock <= MaxClock
    /\ r.db.seq_lists <= MaxLists
    /\ r.db.seq_tasks <= MaxTasks
    /\ lists' = r.db.lists
    /\ tasks' = r.db.tasks
    /\ seq_lists' = r.db.seq_lists
    /\ seq_tasks' = r.db.seq_tasks
    /\ clock' = r.clock

\* The with block of main() is left (end of script, st.rerun, st.stop or an
\* exception): ClientSync.__exit__ closes the client.
EndRun ==
    /\ pc' = "idle"
    /\ open' = open \ {client}
    /\ client' = 0

Init ==
    /\ lists = {}
    /\ tasks = {}
    /\ seq_lists = 0
    /\ seq_tasks = 0
    /\ clock = 0
    /\ open = {}
    /\ client = 0
    /\ pc = "idle"
    /\ shown = <<>>
    /\ sort_by = "Default"
    /\ selected_list_id = 0
    /\ cb_client = 0
    /\ last = NoCall

\* ---- main(): a script run begins ----------------------------------------
\* with get_db_client() as client: a new client object, which takes the least
\* identity no open client has; init_database finds both tables (CREATE TABLE
\* IF NOT EXISTS). The page of the previous run is replaced.
RunBegin ==
    /\ pc = "idle"
    /\ \E c \in Clients :
        /\ c \notin open
        /\ \A d \in Clients : d \notin open => c <= d
        /\ client' = c
        /\ open' = open \cup {c}
    /\ pc' = "running"
    /\ shown' = <<>>
    /\ sort_by' = "Default"
    /\ selected_list_id' = 0
    /\ cb_client' = 0
    /\ last' = NoCall
    /\ UNCHANGED <<lists, tasks, seq_lists, seq_tasks, clock>>

\* ---- main(): the handlers, each followed by st.rerun() -----------------
CreateList(name, list_type, fail) ==
    /\ pc = "running"
    /\ LET r == add_list(client, DB, clock, name, list_type, fail)
       IN /\ Commit(r)
          /\ last' = Call("add_list", r.db.seq_lists,
                          \E x \in lists : x.list_name = name, r)
    /\ EndRun
    /\ UNCHANGED <<shown, sort_by, selected_list_id, cb_client>>

RenameList(list_id, new_name, fail) ==
    /\ pc = "running"
    /\ LET r == update_list_name(client, DB, clock, list_id, new_name, fail)
       IN /\ Commit(r)
          /\ last' = Call("update_list_name", list_id, list_id \in ListIdsOf(DB), r)
    /\ EndRun
    /\ UNCHANGED <<shown, sort_by, selected_list_id, cb_client>>

DeleteList(list_id, fail) ==
    /\ pc = "running"
    /\ LET r == delete_list(client, DB, clock, list_id, fail)
       IN /\ Commit(r)
          /\ last' = Call("delete_list", list_id, list_id \in ListIdsOf(DB), r)
    /\ EndRun
    /\ UNCHANGED <<shown, sort_by, selected_list_id, cb_client>>

AddTask(list_id, task_name, urgent, important, fail) ==
    /\ pc = "running"
    /\ LET r == add_task(client, DB, clock, list_id, task_name, urgent, important, fail)
       IN /\ Commit(r)
          /\ last' = Call("add_task", list_id, list_id \in ListIdsOf(DB), r)
    /\ EndRun
    /\ UNCHANGED <<shown, sort_by, selected_list_id, cb_client>>

SaveTask(task_id, list_id, task_name, urgent, important, fail) ==
    /\ pc = "running"
    /\ LET r == update_task_details(client, DB, clock, task_id, task_name, urgent,
                                    important, list_id, fail)
       IN /\ Commit(r)
          /\ last' = Call("update_task_details", list_id, TaskInList(task_id, list_id), r)
    /\ EndRun
    /\ UNCHANGED <<shown, sort_by, selected_list_id, cb_client>>

DeleteTask(task_id, list_id, fail) ==
    /\ pc = "running"
    /\ LET r == delete_task(client, DB, clock, task_id, list_id, fail)
       IN /\ Commit(r)
          /\ last' = Call("delete_task", list_id, TaskInList(task_id, list_id), r)
    /\ EndRun
    /\ UNCHANGED <<shown, sort_by, selected_list_id, cb_client>>

\* update_task_status called with the client of the running script (main()
\* itself passes the function to the checkboxes only, see CheckboxChanged).
SetTaskStatus(task_id, completed, list_id, fail) ==
    /\ pc = "running"
    /\ LET r == update_task_status(client, DB, clock, task_id, completed, list_id, fail)
       IN /\ Commit(r)
          /\ last' = Call("update_task_status", list_id, TaskInList(task_id, list_id), r)
    /\ EndRun
    /\ UNCHANGED <<shown, sort_by, selected_list_id, cb_client>>

\* ---- main(): a run in which no button was pressed -----------------------
\* get_all_lists returned no row: st.info and st.stop().
RenderNoLists(list_filter, fail) ==
    /\ pc = "running"
    /\ <<>> \in get_all_lists(client, DB, list_filter, fail)
    /\ EndRun
    /\ UNCHANGED <<lists, tasks, seq_lists, seq_tasks, clock, shown, sort_by,
                   selected_list_id, cb_client, last>>

\* The sidebar selects one of all_lists, the main area fetches its tasks and
\* registers one checkbox per task with args=(client, task_id, ..., selected_list_id).
\* failed: the execute of get_tasks_for_list raised; the page shows the error.
RenderTasks(list_filter, sel, sb, filter_urgent, filter_important, failed) ==
    /\ pc = "running"
    /\ \E all_lists \in get_all_lists(client, DB, list_filter, 0) :
        /\ all_lists # <<>>
        /\ sel \in {all_lists[i].list_id : i \in 1..Len(all_lists)}
    /\ IF failed
       THEN UNCHANGED <<shown, sort_by, selected_list_id, cb_client>>
       ELSE \E rows \in get_tasks_for_list(DB, sel, sb, filter_urgent, filter_important) :
              /\ shown' = rows
              /\ sort_by' = sb
              /\ selected_list_id' = sel
              /\ cb_client' = IF rows = <<>> THEN 0 ELSE client
    /\ EndRun
    /\ UNCHANGED <<lists, tasks, seq_lists, seq_tasks, clock, last>>

\* ---- the checkbox of the i-th displayed task is toggled -----------------
\* Streamlit calls on_change with the args registered in the run that drew the
\* checkbox, before the script reruns.
CheckboxChanged(i, fail) ==
    /\ pc = "idle"
    /\ i \in 1..Len(shown)
    /\ LET task == shown[i]
           r == update_task_status(cb_client, DB, clock, task.task_id,
                                   ~(task.completed # 0), selected_list_id, fail)
       IN /\ Commit(r)
          /\ last' = Call("update_task_status", selected_list_id,
                          TaskInList(task.task_id, selected_list_id), r)
    /\ shown' = <<>>
    /\ sort_by' = "Default"
    /\ selected_list_id' = 0
    /\ cb_client' = 0
    /\ UNCHANGED <<open, client, pc>>

Next ==
    \/ RunBegin
    \/ \E name \in ListNames, list_type \in ListTypes, fail \in 0..1 :
          CreateList(name, list_type, fail)
    \/ \E list_id \in 1..seq_lists, new_name \in ListNames, fail \in 0..2 :
          RenameList(list_id, new_name, fail)
    \/ \E list_id \in 1..seq_lists, fail \in 0..1 :
          DeleteList(list_id, fail)
    \/ \E list_id \in 1..seq_lists, task_name \in TaskNames, urgent \in YesNo,
          important \in YesNo, fail \in 0..2 :
          AddTask(list_id, task_name, urgent, important, fail)
    \/ \E task_id \in 1..seq_tasks, task_name \in TaskNames, urgent \in YesNo,
          important \in YesNo, fail \in 0..2 :
          \E list_id \in ListIdsFor(task_id) :
             SaveTask(task_id, list_id, task_name, urgent, important, fail)
    \/ \E task_id \in 1..seq_tasks, fail \in 0..2 :
          \E list_id \in ListIdsFor(task_id) : DeleteTask(task_id, list_id, fail)
    \/ \E task_id \in 1..seq_tasks, completed \in BOOLEAN, fail \in 0..2 :
          \E list_id \in ListIdsFor(task_id) :
             SetTaskStatus(task_id, completed, list_id, fail)
    \/ \E list_filter \in ListFilters, fail \in 0..1 : RenderNoLists(list_filter, fail)
    \/ \E list_filter \in ListFilters, sel \in 1..seq_lists, sb \in SortByOptions,
          filter_urgent \in BOOLEAN, filter_important \in BOOLEAN, failed \in BOOLEAN :
          RenderTasks(list_filter, sel, sb, filter_urgent, filter_important, failed)
    \/ \E i \in 1..MaxTasks, fail \in 0..2 : CheckboxChanged(i, fail)

Spec == Init /\ [][Next]_vars

\* ---- properties ---------------------------------------------------------
DefaultSortKeys == SortKeys \ {"urgent", "important"}

\* In s no completed task comes before an incomplete one.
IncompleteFirst(s) ==
    \A i, j \in 1..Len(s) : i < j => ~(s[i].completed = 1 /\ s[j].completed = 0)

task_priority(t) ==
    IF t.important = "Yes" THEN (IF t.urgent = "Yes" THEN 4 ELSE 3)
    ELSE (IF t.urgent = "Yes" THEN 2 ELSE 1)

\* C2: in every sequence get_tasks_for_list may return, two tasks of the same
\* completion group appear in non-increasing priority score, and tasks of equal
\* score appear with the smaller task_id first.
C2_PriorityThenCreationOrder ==
    \A list_id \in 1..seq_lists, sort_key \in SortKeys,
       filter_urgent \in BOOLEAN, filter_important \in BOOLEAN :
       \A s \in get_tasks_for_list(DB, list_id, sort_key, filter_urgent, filter_important) :
          \A i, j \in 1..Len(s) :
             (i < j /\ s[i].completed = s[j].completed)
                => \/ task_priority(s[i]) > task_priority(s[j])
                   \/ /\ task_priority(s[i]) = task_priority(s[j])
                      /\ s[i].task_id < s[j].task_id

\* C3: in every sequence get_all_lists may return, a list that appears before
\* another was created no later (no list is pinned: the table has no such
\* column, so all lists have equal pinned status; list_id grows with creation).
C3_ListsInCreationOrder ==
    \A list_type \in ListFilters :
       \A s \in SelectLists(DB, list_type) :
          \A i, j \in 1..Len(s) : i < j => s[i].list_id <= s[j].list_id

\* C4: every stored task's list_id is the id of a stored list, and right after
\* a delete_list that ran, get_tasks_for_list returns the empty sequence for
\* the deleted list.
C4_TasksReferenceStoredLists ==
    /\ \A t \in tasks : t.list_id \in ListIdsOf(DB)
    /\ (last.op = "delete_list" /\ last.status = "ok")
          => \A sort_key \in SortKeys, filter_urgent \in BOOLEAN,
                filter_important \in BOOLEAN :
                get_tasks_for_list(DB, last.list_id, sort_key, filter_urgent,
                                   filter_important) = {<<>>}

\* delete_list has just deleted a list that had tasks, and another list and
\* its task remain.
C4_Witness ==
    /\ last.op = "delete_list" /\ last.status = "ok" /\ last.existed
    /\ last.ntasks > 0
    /\ tasks # {}

\* C5: no two stored lists have the same name, and an add_list with a name a
\* stored list already has does not run to its end.
C5_ListNamesUnique ==
    /\ \A a \in lists, b \in lists : a.list_name = b.list_name => a = b
    /\ ~(last.op = "add_list" /\ last.status = "ok" /\ last.existed)

\* C6: a call one of whose statements failed has left the stored lists and
\* tasks as they were.
C6_FailedCallChangesNothing ==
    (last.status = "failed"
     /\ last.op \in {"add_task", "update_task_details", "update_task_status",
                     "delete_task", "update_list_name"})
       => ~last.changed

\* C7: every stored list has a non-empty name, every stored task a non-empty
\* text, and a call that was given the empty string changed nothing.
C7_NamesNonEmpty ==
    /\ \A r \in lists : r.list_name # ""
    /\ \A t \in tasks : t.task_name # ""
    /\ (last.status = "skipped" /\ last.op # "none") => ~last.changed

\* A call was given the empty string while lists and tasks are stored.
C7_Witness ==
    /\ last.status = "skipped" /\ last.op \in {"add_list", "update_list_name"}
    /\ lists # {} /\ tasks # {}

\* C8: no call issues an execute on a client that was closed.
C8_NoExecuteOnClosedClient == ~last.closed_exec

\* In s no row whose flag is 'No' comes before a row whose flag is 'Yes'.
UrgentFirst(s) ==
    \A i, j \in 1..Len(s) : i < j => ~(s[i].urgent = "No" /\ s[j].urgent = "Yes")

ImportantFirst(s) ==
    \A i, j \in 1..Len(s) : i < j => ~(s[i].important = "No" /\ s[j].important = "Yes")

\* C9: with 'Urgent' selected in "Sort By", the sequence main() displays lists
\* every urgent task before every task that is not urgent; with 'Important'
\* selected, every important task before every task that is not.
C9_SelectedFlagFirst ==
    /\ sort_by = "Urgent" => UrgentFirst(shown)
    /\ sort_by = "Important" => ImportantFirst(shown)

TouchingOps ==
    {"add_list", "update_list_name", "add_task", "update_task_details",
     "update_task_status", "delete_task"}

\* C10 (the clock of the model is strictly increasing): every sequence
\* get_all_lists("All") may return is in non-increasing last_modified order,
\* and right after a call of add_list, update_list_name, add_task,
\* update_task_details, update_task_status or delete_task that ran for a stored
\* list L, L is its first element.
C10_TouchedListFirst ==
    /\ \A s \in SelectLists(DB, "All") :
          \A i, j \in 1..Len(s) : i < j => s[i].last_modified >= s[j].last_modified
    /\ (last.status = "ok" /\ last.op \in TouchingOps /\ last.list_id \in ListIdsOf(DB))
          => \A s \in SelectLists(DB, "All") : s # <<>> /\ s[1].list_id = last.list_id

\* delete_task has just deleted a task of the older of two stored lists.
C10_Witness ==
    /\ last.op = "delete_task" /\ last.status = "ok" /\ last.existed
    /\ \E r \in lists : r.list_id > last.list_id
    /\ last.list_id \in ListIdsOf(DB)

====
